---- MODULE Spec2Model ----
(***************************************************************************)
(* Peer session and chunked file transfer of the App component             *)
(* (src/unnamed/part_003, the revision with 64 KiB chunks, the 16 MiB      *)
(* backpressure mark and the PING/PONG handshake).                         *)
(*                                                                         *)
(* One App instance is modelled: its React state (ui), its useRef cells    *)
(* (refs), the PeerJS objects it holds (net), its scheduled callbacks and  *)
(* suspended async functions (tasks).  The remote peer and the transport   *)
(* are the environment: they open, close and fail channels and deliver     *)
(* messages.  Handlers are operators from a state record to a state record *)
(* because they call one another synchronously (close() runs the 'close'   *)
(* handler, connectToTarget runs handleConnection, the ACK handler runs    *)
(* streamFile up to its first await).                                      *)
(*                                                                         *)
(* A callback reads the React state of the render that created it, not the *)
(* current one: the closure's values are stored with the callback (the     *)
(* field cs of a connection, the field snap of the connection timeout).    *)
(***************************************************************************)
EXTENDS Integers, Sequences, FiniteSets, TLC

VARIABLES ui, refs, net, tasks, obs

vars == <<ui, refs, net, tasks, obs>>

---------------------------------------------------------------------------
(* Bounds of the model *)

\* connection objects the user's connects and the remote's inbound
\* connections ask the library for
MaxConns == 2
\* connection objects in all: the retry of a connect timeout may ask for one
\* more
MaxChans == MaxConns + 1
\* transfers announced, both directions together
MaxFiles == 2
\* text messages, both directions together
MaxTexts == 3
\* chunks in the assembler's buffer up to which an object taken for binary
\* is delivered
MaxJunk == 2
\* 'error' events the transport and the signaling server raise by themselves
MaxErrors == 1
\* heartbeat ticks counted since the last PONG
MaxSilentTicks == 5
\* PINGs remembered as unanswered on one channel
MaxPingOut == 1
\* sessions the user starts (startRoom, joinRoom)
MaxSessions == 1
\* times the user opens the scanner
MaxScans == 1

(* Program constants *)

\* const chunkSize = 64 * 1024
chunkSize == 65536
\* channel.bufferedAmount > 16 * 1024 * 1024
HighWater == 16777216
\* if (retryCount < 2)
RetryLimit == 2
\* decodedText.length > 3
MinScanLen == 3
\* setInterval(..., 4000): milliseconds between two heartbeat ticks
HeartbeatMs == 4000

---------------------------------------------------------------------------
(* Values *)

NoConn == 0
Null == <<>>
Some(x) == <<x>>
NaN == -1

Min(a, b) == IF a < b THEN a ELSE b

\* identifiers are strings of characters
HostId == <<"h", "o", "s", "t">>
GuestId == <<"r", "e", "c", "v">>

ToLowerChar(ch) ==
    CASE ch = "H" -> "h"
      [] ch = "O" -> "o"
      [] ch = "S" -> "s"
      [] ch = "T" -> "t"
      [] OTHER -> ch

RECURSIVE toLowerCase(_)
toLowerCase(str) ==
    IF str = <<>> THEN <<>>
    ELSE <<ToLowerChar(Head(str))>> \o toLowerCase(Tail(str))

RECURSIVE TrimStart(_)
TrimStart(str) ==
    IF str # <<>> /\ Head(str) = " " THEN TrimStart(Tail(str)) ELSE str

RECURSIVE TrimEnd(_)
TrimEnd(str) ==
    IF str # <<>> /\ str[Len(str)] = " "
    THEN TrimEnd(SubSeq(str, 1, Len(str) - 1))
    ELSE str

trim(str) == TrimEnd(TrimStart(str))

\* decodedText.split('/').pop() || decodedText
RECURSIVE LastSegment(_)
LastSegment(str) ==
    IF \E i \in 1..Len(str) : str[i] = "/"
    THEN LastSegment(Tail(str))
    ELSE str

cleanId(decodedText) ==
    IF LastSegment(decodedText) # <<>> THEN LastSegment(decodedText) ELSE decodedText

---------------------------------------------------------------------------
(* State *)

\* the record all handlers work on
State == [ui |-> ui, refs |-> refs, net |-> net, tasks |-> tasks, obs |-> obs]

\* a DataConnection object: st is the library's view of it (none: not yet
\* created), cs the connectionStatus its handlers closed over; pingOut counts
\* the PINGs sent on it that the remote has not answered yet, ponged tells
\* that a PONG arrived on it, fsOut counts the FILE_STARTs not yet acknowledged,
\* fsIn tells that a FILE_START arrived on it,
\* peer is the id of the remote end (conn.peer)
NoConnObj ==
    [st |-> "none", cs |-> "Disconnected", pingOut |-> 0, ponged |-> FALSE,
     fsOut |-> 0, fsIn |-> FALSE, peer |-> <<>>]

TextRec(sender, content) ==
    [id |-> 0, sender |-> sender, type |-> "text", content |-> content,
     name |-> "", size |-> 0, progress |-> 0, status |-> "", fileUrl |-> Null]

FileRec(sender, meta) ==
    [id |-> meta.id, sender |-> sender, type |-> "file", content |-> <<>>,
     name |-> meta.name, size |-> meta.size, progress |-> 0,
     status |-> "transferring", fileUrl |-> Null]

\* the React state a callback closed over
Snapshot(s) ==
    [isConnecting |-> s.ui.isConnecting,
     connectionStatus |-> s.ui.connectionStatus,
     retryCount |-> s.ui.retryCount,
     peerId |-> s.ui.peerId,
     targetPeerId |-> s.ui.targetPeerId]

InitUi ==
    [appState |-> "HOME", role |-> "none", peerId |-> <<>>, targetPeerId |-> <<>>,
     connectionStatus |-> "Disconnected", serverStatus |-> "disconnected",
     errorMsg |-> "", isConnecting |-> FALSE, retryCount |-> 0,
     messages |-> <<>>, isTransferring |-> FALSE, isScanning |-> FALSE]

InitRefs ==
    [peerRef |-> Null, connRef |-> NoConn,
     incomingFileIdRef |-> Null, receivedChunksRef |-> <<>>,
     receivedSizeRef |-> 0, currentIncomingMetaRef |-> Null,
     fileMetaRef |-> Null, pendingFileTransferRef |-> Null,
     lastProgressUpdateRef |-> 0]

InitTasks ==
    [heartbeatRef |-> FALSE, connectionTimeoutRef |-> Null, ackTimers |-> 0,
     streams |-> <<>>, scanner |-> Null, initPending |-> Null]

InitObs == [out |-> <<>>, silentTicks |-> 0]

Init ==
    /\ ui = InitUi
    /\ refs = InitRefs
    /\ \E b \in BOOLEAN :
          net = [conns |-> [c \in 1..MaxChans |-> NoConnObj], nextConn |-> 1,
                 closePendingNoop |-> b, nextId |-> 1, texts |-> 0, errors |-> 0,
                 sessions |-> 0, scans |-> 0,
                 remoteFailed |-> FALSE, remoteTexts |-> <<>>]
    /\ tasks = InitTasks
    /\ obs = InitObs

\* an action's effect: the handler's result, with the outputs of this step;
\* the heartbeat ticks without a PONG are counted only while the status is
\* Connected
Commit(n) ==
    /\ ui' = n.ui
    /\ refs' = n.refs
    /\ net' = n.net
    /\ tasks' = n.tasks
    /\ obs' = [n.obs EXCEPT !.silentTicks =
                   IF n.ui.connectionStatus = "Connected" THEN @ ELSE 0]

\* the state a handler starts from: nothing sent yet in this step
Begin == [State EXCEPT !.obs.out = <<>>]

ConnOpen(s, c) == c # NoConn /\ s.net.conns[c].st = "open"

---------------------------------------------------------------------------
(* Helpers of the component *)

addSystemMessage(s, text) ==
    [s EXCEPT !.ui.messages = Append(@, TextRec("peer", <<"system", text>>))]

stopHeartbeat(s) == [s EXCEPT !.tasks.heartbeatRef = FALSE]

startHeartbeat(s) == [stopHeartbeat(s) EXCEPT !.tasks.heartbeatRef = TRUE]

\* conn.on('close', ...)
OnConnClose(s, c) ==
    addSystemMessage(
        stopHeartbeat([s EXCEPT !.ui.connectionStatus = "Disconnected",
                                !.ui.isConnecting = FALSE,
                                !.ui.isTransferring = FALSE]),
        "closed")

\* conn.on('error', ...)
OnConnError(s, c) ==
    addSystemMessage(
        [s EXCEPT !.ui.isConnecting = FALSE,
                  !.ui.connectionStatus = "Disconnected",
                  !.ui.isTransferring = FALSE],
        "error")

\* conn.close(): an open connection closes and emits 'close' at once; one
\* that never opened is cleaned up, or (closePendingNoop) left as it is
LibClose(s, c) ==
    CASE s.net.conns[c].st = "open" ->
            OnConnClose([s EXCEPT !.net.conns[c].st = "closed"], c)
      [] s.net.conns[c].st = "pending" ->
            IF s.net.closePendingNoop THEN s
            ELSE [s EXCEPT !.net.conns[c].st = "closed"]
      [] OTHER -> s

\* conn.send(msg): on a connection that is not open the library emits
\* 'error' instead of sending
LibSend(s, c, msg) ==
    IF s.net.conns[c].st = "open"
    THEN [s EXCEPT !.obs.out = Append(@, [ch |-> c, msg |-> msg]),
                   !.net.conns[c].pingOut =
                       IF msg.type = "PING" THEN Min(@ + 1, MaxPingOut) ELSE @,
                   !.net.conns[c].fsOut =
                       IF msg.type = "FILE_START" THEN Min(@ + 1, MaxFiles) ELSE @]
    ELSE OnConnError(s, c)

\* handleConnection(conn), called by a closure whose connectionStatus is cs
handleConnection(s, cs, c) ==
    LET s1 == IF s.refs.connRef # NoConn THEN LibClose(s, s.refs.connRef) ELSE s
    IN  [s1 EXCEPT !.refs.connRef = c,
                   !.net.conns[c] = [NoConnObj EXCEPT !.st = "pending", !.cs = cs],
                   !.net.nextConn = @ + 1]

\* an 'open' handler that starts the heartbeat and leaves the first PING to
\* its first tick
OnConnOpenNoPing(s, c) == startHeartbeat(s)

\* conn.on('open', ...)
OnConnOpen(s, c) == startHeartbeat(LibSend(s, c, [type |-> "PING"]))

---------------------------------------------------------------------------
(* Incoming transfer: handleFileChunk *)

MapMsgs(msgs, F(_)) == [i \in 1..Len(msgs) |-> F(msgs[i])]

RemoveAt(seq, k) == SubSeq(seq, 1, k - 1) \o SubSeq(seq, k + 1, Len(seq))

\* Math.floor in place of Math.round: the percentage cut, not rounded
ReceiveProgressFloor(received, total) ==
    IF total = 0
    THEN (IF received = 0 THEN NaN ELSE 100)
    ELSE Min((100 * received) \div total, 100)

\* Math.round(x) of x = (received / total) * 100, capped by Math.min(.., 100);
\* a zero total gives Infinity (capped to 100) or, for 0/0, NaN
ReceiveProgress(received, total) ==
    IF total = 0
    THEN (IF received = 0 THEN NaN ELSE 100)
    ELSE Min((200 * received + total) \div (2 * total), 100)

\* the throttle test now - lastProgressUpdateRef.current > 100: a cell still
\* holding 0 is always older than 100 ms, otherwise the clock decides
Elapsed(last, elapsed) == last = 0 \/ elapsed

\* an assembler that completes only when the count equals the size
handleFileChunkExact(s, len, elapsed) ==
    LET metaRef == IF s.refs.currentIncomingMetaRef # Null
                   THEN s.refs.currentIncomingMetaRef ELSE s.refs.fileMetaRef
    IN  IF metaRef = Null THEN s
        ELSE
        LET meta == metaRef[1]
            chunks == Append(s.refs.receivedChunksRef, len)
            received == s.refs.receivedSizeRef + len
            total == meta.size
            progress == ReceiveProgress(received, total)
            show == Elapsed(s.refs.lastProgressUpdateRef, elapsed)
                    \/ (progress # NaN /\ progress >= 100)
            s1 == [s EXCEPT !.refs.receivedChunksRef = chunks,
                            !.refs.receivedSizeRef = received]
            s2 == IF show
                  THEN [s1 EXCEPT
                          !.refs.lastProgressUpdateRef = 1,
                          !.ui.messages = MapMsgs(@, LAMBDA m :
                              IF m.id = meta.id
                              THEN [m EXCEPT !.progress = progress] ELSE m)]
                  ELSE s1
        IN  IF received = total
            THEN [s2 EXCEPT
                    !.ui.messages = MapMsgs(@, LAMBDA m :
                        IF m.id = meta.id
                        THEN [m EXCEPT !.progress = 100, !.status = "completed",
                                       !.fileUrl = Some(chunks)]
                        ELSE m),
                    !.refs.currentIncomingMetaRef = Null,
                    !.refs.fileMetaRef = Null,
                    !.refs.incomingFileIdRef = Null,
                    !.refs.receivedChunksRef = <<>>,
                    !.refs.receivedSizeRef = 0,
                    !.ui.isTransferring = FALSE]
            ELSE s2

\* an assembler that leaves the chunk buffer and the count as they are when
\* the transfer completes
handleFileChunkKeepsBuffer(s, len, elapsed) ==
    LET metaRef == IF s.refs.currentIncomingMetaRef # Null
                   THEN s.refs.currentIncomingMetaRef ELSE s.refs.fileMetaRef
    IN  IF metaRef = Null THEN s
        ELSE
        LET meta == metaRef[1]
            chunks == Append(s.refs.receivedChunksRef, len)
            received == s.refs.receivedSizeRef + len
            total == meta.size
            progress == ReceiveProgress(received, total)
            show == Elapsed(s.refs.lastProgressUpdateRef, elapsed)
                    \/ (progress # NaN /\ progress >= 100)
            s1 == [s EXCEPT !.refs.receivedChunksRef = chunks,
                            !.refs.receivedSizeRef = received]
            s2 == IF show
                  THEN [s1 EXCEPT
                          !.refs.lastProgressUpdateRef = 1,
                          !.ui.messages = MapMsgs(@, LAMBDA m :
                              IF m.id = meta.id
                              THEN [m EXCEPT !.progress = progress] ELSE m)]
                  ELSE s1
        IN  IF received >= total
            THEN [s2 EXCEPT
                    !.ui.messages = MapMsgs(@, LAMBDA m :
                        IF m.id = meta.id
                        THEN [m EXCEPT !.progress = 100, !.status = "completed",
                                       !.fileUrl = Some(chunks)]
                        ELSE m),
                    !.refs.currentIncomingMetaRef = Null,
                    !.refs.fileMetaRef = Null,
                    !.refs.incomingFileIdRef = Null,
                    !.ui.isTransferring = FALSE]
            ELSE s2

\* handleFileChunk(data)
handleFileChunk(s, len, elapsed) ==
    LET metaRef == IF s.refs.currentIncomingMetaRef # Null
                   THEN s.refs.currentIncomingMetaRef ELSE s.refs.fileMetaRef
    IN  IF metaRef = Null THEN s
        ELSE
        LET meta == metaRef[1]
            chunks == Append(s.refs.receivedChunksRef, len)
            received == s.refs.receivedSizeRef + len
            total == meta.size
            progress == ReceiveProgress(received, total)
            show == Elapsed(s.refs.lastProgressUpdateRef, elapsed)
                    \/ (progress # NaN /\ progress >= 100)
            s1 == [s EXCEPT !.refs.receivedChunksRef = chunks,
                            !.refs.receivedSizeRef = received]
            s2 == IF show
                  THEN [s1 EXCEPT
                          !.refs.lastProgressUpdateRef = 1,
                          !.ui.messages = MapMsgs(@, LAMBDA m :
                              IF m.id = meta.id
                              THEN [m EXCEPT !.progress = progress] ELSE m)]
                  ELSE s1
        IN  IF received >= total
            THEN [s2 EXCEPT
                    !.ui.messages = MapMsgs(@, LAMBDA m :
                        IF m.id = meta.id
                        THEN [m EXCEPT !.progress = 100, !.status = "completed",
                                       !.fileUrl = Some(chunks)]
                        ELSE m),
                    !.refs.currentIncomingMetaRef = Null,
                    !.refs.fileMetaRef = Null,
                    !.refs.incomingFileIdRef = Null,
                    !.refs.receivedChunksRef = <<>>,
                    !.refs.receivedSizeRef = 0,
                    !.ui.isTransferring = FALSE]
            ELSE s2

---------------------------------------------------------------------------
(* Outgoing transfer: streamFile, an async function.  A suspended call is a *)
(* record of tasks.streams; pc names the await it is suspended at; ch is    *)
(* the channel that was the current one when the file was announced and     *)
(* announced tells whether the FILE_START went out on it, sentBytes counts   *)
(* the bytes that send() handed to an open channel; the code keeps none of  *)
(* the three, the model records them for the properties only.               *)

\* Math.min((offset / file.size) * 100, 100), kept as its integer part
SendProgress(offset, size) == Min((offset * 100) \div size, 100)

\* finally { setIsTransferring(false) }: the call ends
StreamFinally(s, k) ==
    [s EXCEPT !.ui.isTransferring = FALSE,
              !.tasks.streams = RemoveAt(@, k)]

\* a catch block that takes the failure of the transfer for the loss of
\* the session
StreamCatchEndsSession(s, k) ==
    LET f == s.tasks.streams[k]
        s1 == addSystemMessage(s, "sendFailed")
    IN  StreamFinally(
            stopHeartbeat(
                [s1 EXCEPT !.ui.connectionStatus = "Disconnected",
                           !.ui.messages = MapMsgs(@, LAMBDA m :
                    IF m.type = "file" /\ m.name = f.name /\ m.sender = "me"
                    THEN [m EXCEPT !.status = "error"] ELSE m)]),
            k)

\* catch (err) { ... }
StreamCatch(s, k) ==
    LET f == s.tasks.streams[k]
        s1 == addSystemMessage(s, "sendFailed")
    IN  StreamFinally(
            [s1 EXCEPT !.ui.messages = MapMsgs(@, LAMBDA m :
                IF m.type = "file" /\ m.name = f.name /\ m.sender = "me"
                THEN [m EXCEPT !.status = "error"] ELSE m)],
            k)

\* after the loop: if (offset >= file.size) mark completed
StreamComplete(s, k) ==
    LET f == s.tasks.streams[k]
    IN  StreamFinally(
            [s EXCEPT !.ui.messages = MapMsgs(@, LAMBDA m :
                IF m.type = "file" /\ m.name = f.name /\ m.sender = "me"
                THEN [m EXCEPT !.progress = 100, !.status = "completed"] ELSE m)],
            k)

\* a backpressure test that also pauses at the mark itself
AtOrAboveMark(bufferedAmount) == bufferedAmount >= HighWater

\* the backpressure test: bufferedAmount above the mark
AboveMark(bufferedAmount) == bufferedAmount > HighWater

\* the head of the while loop, up to the next await; bufferedAmount is what
\* the channel's gauge shows when it is read
StreamTop(s, k, bufferedAmount) ==
    LET f == s.tasks.streams[k]
    IN  IF f.offset < f.size
        THEN IF ~ConnOpen(s, s.refs.connRef)
             THEN StreamCatch(s, k)
             ELSE IF AboveMark(bufferedAmount)
                  THEN [s EXCEPT !.tasks.streams[k].pc = "wait",
                                 !.tasks.streams[k].gauge = bufferedAmount]
                  ELSE [s EXCEPT !.tasks.streams[k].pc = "read",
                                 !.tasks.streams[k].gauge = bufferedAmount]
        ELSE StreamComplete(s, k)

\* after await slice.arrayBuffer(): send the chunk, advance, report
StreamSend(s, k, readOk, elapsed) ==
    LET f == s.tasks.streams[k]
    IN  IF ~readOk \/ s.refs.connRef = NoConn
        THEN StreamCatch(s, k)
        ELSE
        LET len == Min(chunkSize, f.size - f.offset)
            s1 == LibSend(s, s.refs.connRef,
                          [type |-> "BIN", tid |-> f.tid, offset |-> f.offset,
                           len |-> len])
            offset == f.offset + chunkSize
            show == Elapsed(f.lastUpdate, elapsed) \/ offset >= f.size
            s2 == [s1 EXCEPT !.tasks.streams[k].offset = offset,
                             !.tasks.streams[k].sentBytes =
                                 IF ConnOpen(s, s.refs.connRef) THEN @ + len ELSE @,
                             !.tasks.streams[k].pc = "yield",
                             !.tasks.streams[k].lastUpdate = IF show THEN 1 ELSE @]
        IN  IF show
            THEN [s2 EXCEPT !.ui.messages = MapMsgs(@, LAMBDA m :
                    IF m.type = "file" /\ m.name = f.name /\ m.sender = "me"
                       /\ m.status # "completed" /\ m.status # "error"
                    THEN [m EXCEPT !.progress = SendProgress(offset, f.size)]
                    ELSE m)]
            ELSE s2

\* streamFile(file): the call runs to its first await
streamFile(s, file, bufferedAmount) ==
    LET s1 == [s EXCEPT !.tasks.streams = Append(@,
                   [name |-> file.name, size |-> file.size, tid |-> file.tid,
                    ch |-> file.ch, announced |-> file.announced, sentBytes |-> 0,
                    offset |-> 0, lastUpdate |-> 0, gauge |-> 0, pc |-> "start"])]
    IN  StreamTop(s1, Len(s1.tasks.streams), bufferedAmount)

---------------------------------------------------------------------------
(* Message router *)

\* a TEXT branch that shows the newest text first
OnTextMessageNewestFirst(s, payload) ==
    [s EXCEPT !.ui.messages = <<TextRec("peer", payload)>> \o @]

\* case 'TEXT' of handleIncomingData
OnTextMessage(s, payload) ==
    [s EXCEPT !.ui.messages = Append(@, TextRec("peer", payload))]

\* the binary test of handleIncomingData: a message is "BIN" when it is an
\* ArrayBuffer, a typed array or a Blob; the last clause of the test also
\* takes an object whose type field is 'Buffer' for binary
isBinary(data) == data.type = "BIN" \/ data.type = "Buffer"

\* the length of the text "[object Object]", which new Blob([data]) holds
\* when data is a plain object
ObjectTextLen == 15

\* chunk.size in handleFileChunk: the byte length of binary data
BlobSize(data) == IF data.type = "BIN" THEN data.len ELSE ObjectTextLen

\* a router whose ACK_FILE_START branch starts the loop and keeps the
\* pending file
handleIncomingDataKeepPending(s, data, bufferedAmount, elapsed) ==
    CASE isBinary(data) -> handleFileChunk(s, BlobSize(data), elapsed)
      [] data.type = "TEXT" -> OnTextMessage(s, data.payload)
      [] data.type = "FILE_START" ->
            LET meta == data.payload
            IN  [s EXCEPT !.refs.currentIncomingMetaRef = Some(meta),
                          !.refs.fileMetaRef = Some(meta),
                          !.refs.incomingFileIdRef = Some(meta.id),
                          !.refs.receivedChunksRef = <<>>,
                          !.refs.receivedSizeRef = 0,
                          !.refs.lastProgressUpdateRef = 0,
                          !.ui.isTransferring = TRUE,
                          !.ui.messages = Append(@, FileRec("peer", meta)),
                          !.tasks.ackTimers = @ + 1]
      [] data.type = "ACK_FILE_START" ->
            IF s.refs.pendingFileTransferRef # Null
            THEN streamFile(s, s.refs.pendingFileTransferRef[1], bufferedAmount)
            ELSE s
      [] OTHER -> s

\* handleIncomingData(data): the binary branch and the switch on data.type
handleIncomingData(s, data, bufferedAmount, elapsed) ==
    CASE isBinary(data) -> handleFileChunk(s, BlobSize(data), elapsed)
      [] data.type = "TEXT" -> OnTextMessage(s, data.payload)
      [] data.type = "FILE_START" ->
            LET meta == data.payload
            IN  [s EXCEPT !.refs.currentIncomingMetaRef = Some(meta),
                          !.refs.fileMetaRef = Some(meta),
                          !.refs.incomingFileIdRef = Some(meta.id),
                          !.refs.receivedChunksRef = <<>>,
                          !.refs.receivedSizeRef = 0,
                          !.refs.lastProgressUpdateRef = 0,
                          !.ui.isTransferring = TRUE,
                          !.ui.messages = Append(@, FileRec("peer", meta)),
                          !.tasks.ackTimers = @ + 1]
      [] data.type = "ACK_FILE_START" ->
            IF s.refs.pendingFileTransferRef # Null
            THEN [streamFile(s, s.refs.pendingFileTransferRef[1], bufferedAmount)
                    EXCEPT !.refs.pendingFileTransferRef = Null]
            ELSE s
      [] OTHER -> s

\* the PONG branch of conn.on('data', ...): cs is the connectionStatus of
\* the render that registered the handler
OnPong(s, cs) ==
    IF cs # "Connected"
    THEN [s EXCEPT !.ui.connectionStatus = "Connected",
                   !.ui.isConnecting = FALSE,
                   !.ui.errorMsg = "",
                   !.ui.appState = "CHAT"]
    ELSE s

\* a 'data' handler that answers a PING on the current channel, connRef,
\* instead of the channel the PING came in on
OnConnDataReplyOnCurrent(s, c, data, bufferedAmount, elapsed) ==
    CASE data.type = "PING" ->
            LibSend(s, IF s.refs.connRef # NoConn THEN s.refs.connRef ELSE c,
                    [type |-> "PONG"])
      [] data.type = "PONG" -> OnPong(s, s.net.conns[c].cs)
      [] OTHER -> handleIncomingData(s, data, bufferedAmount, elapsed)

\* conn.on('data', ...)
OnConnData(s, c, data, bufferedAmount, elapsed) ==
    CASE data.type = "PING" -> LibSend(s, c, [type |-> "PONG"])
      [] data.type = "PONG" -> OnPong(s, s.net.conns[c].cs)
      [] OTHER -> handleIncomingData(s, data, bufferedAmount, elapsed)

---------------------------------------------------------------------------
(* Signaling: the Peer object and initializePeer *)

NewPeer(id) == [id |-> id, open |-> FALSE, disconnected |-> FALSE, destroyed |-> FALSE]

RECURSIVE CloseAll(_, _)
CloseAll(s, c) == IF c > MaxChans THEN s ELSE CloseAll(LibClose(s, c), c + 1)

\* peer.on('close', ...)
OnPeerClose(s) == [s EXCEPT !.ui.serverStatus = "disconnected", !.ui.peerId = <<>>]

\* peer.destroy(): closes the peer's connections, leaves the server, emits 'close'
LibDestroy(s) ==
    IF s.refs.peerRef[1].destroyed THEN s
    ELSE OnPeerClose(
            [CloseAll(s, 1) EXCEPT
                !.refs.peerRef = Some([id |-> <<>>, open |-> FALSE,
                                       disconnected |-> TRUE, destroyed |-> TRUE])])

initializePeer(s, id) ==
    IF s.refs.peerRef # Null /\ ~s.refs.peerRef[1].destroyed
    THEN s
    ELSE [s EXCEPT !.ui.serverStatus = "connecting",
                   !.refs.peerRef = Some(NewPeer(id))]

\* peer.on('open', ...)
OnPeerOpen(s, myId) ==
    [s EXCEPT !.ui.peerId = myId, !.ui.serverStatus = "connected", !.ui.errorMsg = ""]

\* a 'disconnected' handler that takes the loss of the signaling link for the
\* loss of the session
OnPeerDisconnectedEndsSession(s) ==
    [stopHeartbeat(s) EXCEPT !.ui.serverStatus = "disconnected",
                             !.ui.connectionStatus = "Disconnected"]

\* peer.on('disconnected', ...)
OnPeerDisconnected(s) == [s EXCEPT !.ui.serverStatus = "disconnected"]

\* the text shown for an error of the signaling layer: one text per known
\* err.type, and a general one (which quotes the type) for the others
ErrorMessage(type) ==
    CASE type = "peer-unavailable" -> "roomNotFound"
      [] type = "network" -> "networkFailed"
      [] type = "server-error" -> "serverUnavailable"
      [] type = "unavailable-id" -> "idConflictRetrying"
      [] type = "browser-incompatible" -> "noWebRTC"
      [] OTHER -> "connectionError"

\* peer.on('error', ...): errorMsg holds the class of the message shown
OnPeerError(s, type) ==
    [s EXCEPT !.ui.serverStatus = "disconnected",
              !.ui.isConnecting = FALSE,
              !.ui.errorMsg = ErrorMessage(type)]

\* startRoom / joinRoom up to their first await
startSession(s, role) ==
    LET s1 == [s EXCEPT !.ui.appState = "SETUP", !.ui.role = role, !.ui.errorMsg = ""]
        s2 == IF s1.refs.peerRef # Null
              THEN [LibDestroy(s1) EXCEPT !.refs.peerRef = Null]
              ELSE s1
    IN  [s2 EXCEPT !.tasks.initPending = Some(role)]

---------------------------------------------------------------------------
(* Session: connectToTarget, its timeout, resetToHome *)

NoArg == <<"undefined">>

\* the target taken as typed
TargetAsTyped(snap, overrideId) ==
    IF overrideId # NoArg THEN overrideId ELSE snap.targetPeerId

Target(snap, overrideId) ==
    toLowerCase(trim(IF overrideId # NoArg THEN overrideId ELSE snap.targetPeerId))

\* early returns that let a connection to oneself through
ConnectRejectionNoSelf(s, snap, overrideId) ==
    IF s.refs.peerRef = Null \/ s.refs.peerRef[1].id = <<>> THEN "notReady"
    ELSE IF Target(snap, overrideId) = <<>> THEN "empty"
    ELSE ""

\* the three early returns of connectToTarget
ConnectRejection(s, snap, overrideId) ==
    IF s.refs.peerRef = Null \/ s.refs.peerRef[1].id = <<>> THEN "notReady"
    ELSE IF Target(snap, overrideId) = <<>> THEN "empty"
    ELSE IF Target(snap, overrideId) = snap.peerId THEN "self"
    ELSE ""

\* connectToTarget(overrideId, isRetry), called by a closure that holds snap
connectToTarget(s, snap, overrideId, isRetry) ==
    LET target == Target(snap, overrideId)
        why == ConnectRejection(s, snap, overrideId)
    IN  IF why # "" THEN [s EXCEPT !.ui.errorMsg = why]
        ELSE
        LET s1 == IF overrideId # NoArg /\ overrideId # <<>>
                  THEN [s EXCEPT !.ui.targetPeerId = target] ELSE s
            s2 == IF ~isRetry
                  THEN [s1 EXCEPT !.ui.isConnecting = TRUE, !.ui.errorMsg = "",
                                  !.ui.retryCount = 0]
                  ELSE s1
            s3 == handleConnection(s2, snap.connectionStatus, s2.net.nextConn)
        IN  [s3 EXCEPT !.net.conns[s2.net.nextConn].peer = target,
                       !.tasks.connectionTimeoutRef =
                          Some([snap |-> [snap EXCEPT !.targetPeerId = target],
                                target |-> target])]

\* the setTimeout callback of connectToTarget, 8 s after the attempt
OnConnectTimeout(s) ==
    LET t == s.tasks.connectionTimeoutRef[1]
        s0 == [s EXCEPT !.tasks.connectionTimeoutRef = Null]
    IN  IF t.snap.isConnecting /\ t.snap.connectionStatus # "Connected"
        THEN IF t.snap.retryCount < RetryLimit
             THEN connectToTarget([s0 EXCEPT !.ui.retryCount = @ + 1],
                                  t.snap, t.target, TRUE)
             ELSE LET s1 == [s0 EXCEPT !.ui.isConnecting = FALSE,
                                       !.ui.errorMsg = "noResponse"]
                  IN  IF s1.refs.connRef # NoConn
                      THEN LibClose(s1, s1.refs.connRef) ELSE s1
        ELSE s0

resetToHome(s) ==
    LET s1 == IF s.refs.connRef # NoConn
              THEN [LibClose(s, s.refs.connRef) EXCEPT !.refs.connRef = NoConn]
              ELSE s
        s2 == IF s1.refs.peerRef # Null
              THEN [LibDestroy(s1) EXCEPT !.refs.peerRef = Null]
              ELSE s1
        s3 == stopHeartbeat([s2 EXCEPT !.tasks.scanner = Null,
                                       !.tasks.connectionTimeoutRef = Null])
    IN  [s3 EXCEPT !.ui = InitUi]

---------------------------------------------------------------------------
(* Chat: sendMessage, onFileSelect, the timers *)

sendMessage(s, inputText) ==
    IF trim(inputText) = <<>> \/ s.refs.connRef = NoConn THEN s
    ELSE [LibSend(s, s.refs.connRef, [type |-> "TEXT", payload |-> inputText])
            EXCEPT !.ui.messages = Append(@, TextRec("me", inputText))]

onFileSelect(s, file) ==
    IF s.refs.connRef = NoConn \/ s.ui.isTransferring THEN s
    ELSE
    LET meta == [id |-> s.net.nextId, name |-> file.name, size |-> file.size]
        s1 == [s EXCEPT !.ui.messages = Append(@, FileRec("me", meta)),
                        !.net.nextId = @ + 1]
        s2 == LibSend(s1, s1.refs.connRef, [type |-> "FILE_START", payload |-> meta])
    IN  [s2 EXCEPT !.refs.pendingFileTransferRef =
                      Some([name |-> file.name, size |-> file.size, tid |-> meta.id,
                            ch |-> s1.refs.connRef,
                            announced |-> ConnOpen(s1, s1.refs.connRef)]),
                   !.ui.isTransferring = TRUE]

\* a heartbeat that keeps quiet while a file is being transferred
OnHeartbeatWhenIdle(s) ==
    IF ConnOpen(s, s.refs.connRef) /\ ~s.ui.isTransferring
    THEN LibSend(s, s.refs.connRef, [type |-> "PING"])
    ELSE s

\* the setInterval callback of startHeartbeat
OnHeartbeat(s) ==
    IF ConnOpen(s, s.refs.connRef)
    THEN LibSend(s, s.refs.connRef, [type |-> "PING"])
    ELSE s

\* the setTimeout callback of the FILE_START branch, 50 ms after it
OnAckTimer(s) ==
    LET s0 == [s EXCEPT !.tasks.ackTimers = @ - 1]
    IN  IF ConnOpen(s0, s0.refs.connRef)
        THEN LibSend(s0, s0.refs.connRef, [type |-> "ACK_FILE_START"])
        ELSE s0

\* the visibilitychange listener, when the page becomes visible again
OnVisible(s) ==
    IF s.ui.isTransferring /\ ~ConnOpen(s, s.refs.connRef)
    THEN [s EXCEPT !.ui.messages = MapMsgs(@, LAMBDA m :
                        IF m.status = "transferring"
                        THEN [m EXCEPT !.status = "error"] ELSE m),
                   !.ui.isTransferring = FALSE]
    ELSE s

---------------------------------------------------------------------------
(* Inputs *)

Roles == {"sender", "receiver"}

LocalId(role) == IF role = "sender" THEN HostId ELSE GuestId

\* what the user may type as room token
RawIds == {<<>>, <<" ", "H", "o", "s", "T", " ">>, GuestId}

\* what the scanner may decode
ScanTexts == {<<"x", "/">> \o HostId, <<"a", "b">>}

\* files the user may pick
LocalFiles == {[name |-> "a", size |-> 0], [name |-> "a", size |-> 100000]}

\* sizes the remote may announce, lengths of the binary messages it may send
InSizes == {0, 100000}
InLens == {65536, 34464}

\* readings of channel.bufferedAmount
Gauges == {HighWater, HighWater + 1}

PeerErrorTypes == {"peer-unavailable", "network"}

\* what the user may type into the message box, what the remote may send
TextInputs == {<<"h", "i">>, <<" ">>}
RemoteTexts == {<<"y", "o">>, <<"o", "k">>}

\* type fields of objects that are no message of the protocol: two names
\* the switch does not know and, as "", an object without a type
UnknownTypes == {"NOISE", "Buffer", ""}

Conns == 1..MaxChans

\* the id of a peer that connects to this one
RemoteId == <<"p", "e", "e", "r">>

PeerUp(s) ==
    /\ s.refs.peerRef # Null
    /\ s.refs.peerRef[1].open
    /\ ~s.refs.peerRef[1].destroyed
    /\ ~s.refs.peerRef[1].disconnected

---------------------------------------------------------------------------
(* Actions: the user *)

StartRoom ==
    /\ ui.appState = "HOME"
    /\ tasks.initPending = Null
    /\ net.sessions < MaxSessions
    /\ Commit(startSession([Begin EXCEPT !.net.sessions = @ + 1], "sender"))

JoinRoom ==
    /\ ui.appState = "HOME"
    /\ tasks.initPending = Null
    /\ net.sessions < MaxSessions
    /\ Commit(startSession([Begin EXCEPT !.net.sessions = @ + 1], "receiver"))

\* startRoom / joinRoom after their awaits
InitPeer ==
    /\ tasks.initPending # Null
    /\ Commit(initializePeer([Begin EXCEPT !.tasks.initPending = Null],
                             LocalId(tasks.initPending[1])))

\* the room token input's onChange; the token is typed before an attempt
\* starts
TypeTarget ==
    /\ ui.appState = "SETUP" /\ ui.role = "receiver" /\ ui.peerId # <<>>
    /\ ~ui.isConnecting
    /\ \E raw \in RawIds :
          /\ raw # ui.targetPeerId
          /\ Commit([Begin EXCEPT !.ui.targetPeerId = raw, !.ui.errorMsg = ""])

\* the connect button; it is disabled while isConnecting
ClickConnect ==
    /\ ui.appState = "SETUP" /\ ui.role = "receiver" /\ ui.peerId # <<>>
    /\ ~ui.isConnecting
    /\ ConnectRejection(Begin, Snapshot(Begin), NoArg) = "" => net.nextConn <= MaxConns
    /\ Commit(connectToTarget(Begin, Snapshot(Begin), NoArg, FALSE))

\* the scan button: the scanner's callback is created by the render that
\* follows, and keeps that render's state
StartScan ==
    /\ ui.appState = "SETUP" /\ ui.role = "receiver" /\ ui.peerId # <<>>
    /\ ~ui.isScanning
    /\ net.scans < MaxScans
    /\ LET s == [Begin EXCEPT !.ui.isScanning = TRUE, !.net.scans = @ + 1]
       IN  Commit([s EXCEPT !.tasks.scanner =
                      Some([Snapshot(s) EXCEPT !.targetPeerId = <<>>])])

\* the scanner decodes a code: stopScanner(), connectToTarget(cleanId)
ScanDecoded ==
    /\ tasks.scanner # Null
    /\ \E decodedText \in ScanTexts :
          /\ Len(decodedText) > MinScanLen
          /\ LET snap == tasks.scanner[1]
                 s == [Begin EXCEPT !.tasks.scanner = Null, !.ui.isScanning = FALSE]
             IN  /\ ConnectRejection(s, snap, cleanId(decodedText)) = ""
                       => net.nextConn <= MaxConns
                 /\ Commit(connectToTarget(s, snap, cleanId(decodedText), FALSE))

\* the exit button of the header, shown on every screen
ResetToHome ==
    /\ ui.appState \in {"HOME", "SETUP", "CHAT"}
    /\ Commit(resetToHome(Begin))

SendMessage ==
    /\ ui.appState = "CHAT"
    /\ net.texts < MaxTexts
    /\ \E inputText \in TextInputs :
          Commit(sendMessage([Begin EXCEPT !.net.texts = @ + 1], inputText))

SelectFile ==
    /\ ui.appState = "CHAT"
    /\ net.nextId <= MaxFiles
    /\ \E file \in LocalFiles : Commit(onFileSelect(Begin, file))

PageVisible ==
    /\ ui.isTransferring
    /\ Commit(OnVisible(Begin))

---------------------------------------------------------------------------
(* Actions: timers and suspended calls *)

ConnectTimeout ==
    /\ tasks.connectionTimeoutRef # Null
    /\ LET t == tasks.connectionTimeoutRef[1]
       IN  (t.snap.isConnecting /\ t.snap.connectionStatus # "Connected"
              /\ t.snap.retryCount < RetryLimit
              /\ ConnectRejection(Begin, t.snap, t.target) = "")
           => net.nextConn <= MaxChans
    /\ Commit(OnConnectTimeout(Begin))

HeartbeatTick ==
    /\ tasks.heartbeatRef
    /\ Commit([OnHeartbeat(Begin) EXCEPT
                  !.obs.silentTicks = Min(@ + 1, MaxSilentTicks)])

AckTimer ==
    /\ tasks.ackTimers > 0
    /\ Commit(OnAckTimer(Begin))

\* streamFile resumes at the head of its loop (after the 50 ms wait or the
\* 0 ms yield)
StreamResume ==
    \E k \in 1..Len(tasks.streams), g \in Gauges :
        /\ tasks.streams[k].pc \in {"wait", "yield"}
        /\ Commit(StreamTop(Begin, k, g))

\* slice.arrayBuffer() settles
StreamRead ==
    \E k \in 1..Len(tasks.streams), readOk \in BOOLEAN, elapsed \in BOOLEAN :
        /\ tasks.streams[k].pc = "read"
        /\ Commit(StreamSend(Begin, k, readOk, elapsed))

---------------------------------------------------------------------------
(* Actions: the signaling server, the transport and the remote peer *)

PeerOpen ==
    /\ refs.peerRef # Null
    /\ ~refs.peerRef[1].open /\ ~refs.peerRef[1].destroyed
    /\ Commit(OnPeerOpen([Begin EXCEPT !.refs.peerRef[1].open = TRUE],
                         refs.peerRef[1].id))

\* peer.on('connection', ...): the handler is the one of the first render
PeerConnection ==
    /\ PeerUp(State)
    /\ net.nextConn <= MaxConns
    /\ Commit([handleConnection(Begin, InitUi.connectionStatus, net.nextConn)
                  EXCEPT !.net.conns[net.nextConn].peer = RemoteId])

PeerDisconnected ==
    /\ PeerUp(State)
    /\ Commit(OnPeerDisconnected(
                  [Begin EXCEPT !.refs.peerRef[1].disconnected = TRUE,
                                !.refs.peerRef[1].id = <<>>]))

PeerError ==
    /\ PeerUp(State)
    /\ net.errors < MaxErrors
    /\ \E type \in PeerErrorTypes :
          Commit(OnPeerError([Begin EXCEPT !.net.errors = @ + 1], type))

ChanOpen ==
    \E c \in Conns :
        /\ net.conns[c].st = "pending"
        /\ Commit(OnConnOpen([Begin EXCEPT !.net.conns[c].st = "open"], c))

ChanClose ==
    \E c \in Conns :
        /\ net.conns[c].st = "open"
        /\ Commit(OnConnClose([Begin EXCEPT !.net.conns[c].st = "closed"], c))

ChanError ==
    \E c \in Conns :
        /\ net.conns[c].st \in {"pending", "open"}
        /\ net.errors < MaxErrors
        /\ Commit(OnConnError([Begin EXCEPT !.net.errors = @ + 1], c))

RecvPing ==
    \E c \in Conns :
        /\ net.conns[c].st = "open"
        /\ Commit(OnConnData(Begin, c, [type |-> "PING"], 0, FALSE))

\* the remote answers a PING sent on c
RecvPong ==
    \E c \in Conns :
        /\ net.conns[c].st = "open"
        /\ net.conns[c].pingOut > 0
        /\ Commit(OnConnData([Begin EXCEPT
                                !.net.conns[c].pingOut = @ - 1,
                                !.net.conns[c].ponged = TRUE,
                                !.obs.silentTicks =
                                    IF c = refs.connRef THEN 0 ELSE @],
                             c, [type |-> "PONG"], 0, FALSE))

\* the remote sends a text and the channel, which is reliable and ordered,
\* delivers it
RecvText ==
    \E c \in Conns, payload \in RemoteTexts :
        /\ net.conns[c].st = "open"
        /\ net.texts < MaxTexts
        /\ Commit(OnConnData([Begin EXCEPT !.net.texts = @ + 1,
                                           !.net.remoteTexts = Append(@, payload)],
                             c, [type |-> "TEXT", payload |-> payload], 0, FALSE))

RecvFileStart ==
    \E c \in Conns, size \in InSizes :
        /\ net.conns[c].st = "open"
        /\ net.nextId <= MaxFiles
        /\ Commit(OnConnData([Begin EXCEPT !.net.nextId = @ + 1,
                                           !.net.conns[c].fsIn = TRUE], c,
                             [type |-> "FILE_START",
                              payload |-> [id |-> net.nextId, name |-> "r",
                                           size |-> size]],
                             0, FALSE))

\* the remote acknowledges a FILE_START sent on c
RecvAck ==
    \E c \in Conns, g \in Gauges :
        /\ net.conns[c].st = "open"
        /\ net.conns[c].fsOut > 0
        /\ Commit(OnConnData([Begin EXCEPT !.net.conns[c].fsOut = @ - 1], c,
                             [type |-> "ACK_FILE_START"], g, FALSE))

RecvChunk ==
    \E c \in Conns, len \in InLens, elapsed \in BOOLEAN :
        /\ net.conns[c].st = "open"
        /\ Commit(OnConnData(Begin, c, [type |-> "BIN", len |-> len], 0, elapsed))

RecvUnknown ==
    \E c \in Conns, type \in UnknownTypes, elapsed \in BOOLEAN :
        /\ net.conns[c].st = "open"
        /\ type = "Buffer" => Len(refs.receivedChunksRef) < MaxJunk
        /\ Commit(OnConnData(Begin, c, [type |-> type], 0, elapsed))

---------------------------------------------------------------------------

\* the heartbeat callback alone, where the ticks without a PONG are not counted
HeartbeatSend ==
    /\ tasks.heartbeatRef
    /\ Commit(OnHeartbeat(Begin))

(* The session: signaling, connect and retry, handshake, heartbeat, exit *)
Next ==
    \/ StartRoom \/ JoinRoom \/ InitPeer \/ TypeTarget \/ ClickConnect
    \/ StartScan \/ ScanDecoded \/ ResetToHome
    \/ ConnectTimeout \/ HeartbeatTick
    \/ PeerOpen \/ PeerConnection \/ PeerDisconnected \/ PeerError
    \/ ChanOpen \/ ChanClose \/ ChanError
    \/ RecvPing \/ RecvPong

Spec == Init /\ [][Next]_vars

(* Transfers, from a session that is Live: the host after a guest joined   *)
(* and the handshake completed on connection 1                             *)
LiveInit ==
    /\ ui = [InitUi EXCEPT !.appState = "CHAT", !.role = "sender",
                           !.peerId = HostId, !.connectionStatus = "Connected",
                           !.serverStatus = "connected"]
    /\ refs = [InitRefs EXCEPT
                  !.peerRef = Some([NewPeer(HostId) EXCEPT !.open = TRUE]),
                  !.connRef = 1]
    /\ \E b \in BOOLEAN :
          net = [conns |-> [c \in 1..MaxChans |->
                               IF c = 1
                               THEN [NoConnObj EXCEPT !.st = "open",
                                                      !.peer = RemoteId,
                                                      !.ponged = TRUE]
                               ELSE NoConnObj],
                 nextConn |-> 2, closePendingNoop |-> b, nextId |-> 1,
                 texts |-> 0, errors |-> 0, sessions |-> 1, scans |-> 0,
                 remoteFailed |-> FALSE, remoteTexts |-> <<>>]
    /\ tasks = [InitTasks EXCEPT !.heartbeatRef = TRUE]
    /\ obs = InitObs

TransferNext ==
    \/ SelectFile \/ PageVisible \/ ResetToHome
    \/ AckTimer \/ StreamResume \/ StreamRead
    \/ PeerConnection \/ ChanOpen \/ ChanClose \/ ChanError
    \/ RecvPong \/ RecvFileStart \/ RecvAck \/ RecvChunk

SpecTransfer == LiveInit /\ [][TransferNext]_vars

(* The assembler fed by a remote that streams as streamFile does: it       *)
(* announces a file, then sends its bytes in order, chunkSize at a time     *)
(* and the rest in the last message; it announces the next file only after  *)
(* it has sent all of the previous one                                      *)
AsmSizes == {0, 65636, 196608}

Announce ==
    \E size \in AsmSizes :
        /\ net.conns[1].st = "open"
        /\ net.nextId <= MaxFiles
        /\ refs.currentIncomingMetaRef # Null =>
               refs.receivedSizeRef >= refs.currentIncomingMetaRef[1].size
        /\ Commit(OnConnData([Begin EXCEPT !.net.nextId = @ + 1,
                                           !.net.conns[1].fsIn = TRUE], 1,
                             [type |-> "FILE_START",
                              payload |-> [id |-> net.nextId, name |-> "r",
                                           size |-> size]],
                             0, FALSE))

Feed ==
    \E elapsed \in BOOLEAN :
        /\ net.conns[1].st = "open"
        /\ refs.currentIncomingMetaRef # Null
        /\ refs.receivedSizeRef < refs.currentIncomingMetaRef[1].size
        /\ Commit(OnConnData(Begin, 1,
                             [type |-> "BIN",
                              len |-> Min(chunkSize,
                                          refs.currentIncomingMetaRef[1].size
                                              - refs.receivedSizeRef)],
                             0, elapsed))

AssemblerNext == Announce \/ Feed \/ AckTimer

SpecAssembler == LiveInit /\ [][AssemblerNext]_vars

---------------------------------------------------------------------------
(* Handshake (section 4.3) *)

\* a PING has gone out on connection c: one is still unanswered, or one was
\* answered
PingSent(c) == net.conns[c].pingOut > 0 \/ net.conns[c].ponged

\* C1: whenever the session status is Connected, the component holds a
\* channel, has sent a PING on that channel and has received a PONG on that
\* same channel
C1_LiveOnlyAfterRoundTrip ==
    ui.connectionStatus = "Connected" =>
        /\ refs.connRef # NoConn
        /\ PingSent(refs.connRef)
        /\ net.conns[refs.connRef].ponged

---------------------------------------------------------------------------
(* Connect and retry (section 4.2) *)

\* C8: when the connection timeout fires while the attempt is still
\* connecting and not Connected, the first two times a retry follows (the
\* retry count grows by one and a new channel is created, no terminal error
\* is shown), and the third time the 'no response' error is shown and the
\* connecting flag is cleared
C8_TimeoutRetriesThenFails ==
    [][(ConnectTimeout /\ ui.isConnecting /\ ui.connectionStatus # "Connected") =>
          IF ui.retryCount < RetryLimit
          THEN /\ ui'.retryCount = ui.retryCount + 1
               /\ net'.nextConn = net.nextConn + 1
               /\ ui'.errorMsg # "noResponse"
          ELSE /\ ui'.errorMsg = "noResponse"
               /\ ~ui'.isConnecting]_vars

---------------------------------------------------------------------------
(* Heartbeat (section 4.4) *)

\* C2: a held channel on which no PONG arrives for longer than the liveness
\* threshold of 10 s makes the session leave Connected within one heartbeat
\* tick of the threshold: n ticks in a row without a PONG span at least
\* (n - 1) heartbeat intervals, and once that exceeds 10 s plus one interval
\* the status is no longer Connected
C2_SilentChannelDisconnects ==
    (obs.silentTicks - 1) * HeartbeatMs > 10000 + HeartbeatMs =>
        ui.connectionStatus # "Connected"

---------------------------------------------------------------------------
(* Transfers (sections 4.5 and 4.6) *)

\* no channel is open or opening, and no callback or suspended call of the
\* component is left to run
Quiet ==
    /\ \A c \in Conns : net.conns[c].st \notin {"pending", "open"}
    /\ tasks.streams = <<>>
    /\ tasks.ackTimers = 0
    /\ tasks.connectionTimeoutRef = Null

\* the chat record i is the incoming transfer being assembled, and bytes of
\* it are still missing
IncomingIncomplete(i) ==
    /\ ui.messages[i].type = "file"
    /\ ui.messages[i].sender = "peer"
    /\ refs.currentIncomingMetaRef # Null
    /\ refs.currentIncomingMetaRef[1].id = ui.messages[i].id
    /\ refs.receivedSizeRef < ui.messages[i].size

\* C3: a transfer cut by the close of its channel does not stay
\* 'transferring': once every channel is closed and nothing of the component
\* is left to run, the record of an incoming transfer that is still
\* incomplete has status 'error'
C3_ClosedTransferIsFailed ==
    Quiet =>
        \A i \in DOMAIN ui.messages :
            IncomingIncomplete(i) => ui.messages[i].status = "error"

\* outgoing transfers in flight: the one announced and waiting for its
\* acknowledgement, and the suspended calls of streamFile
OutgoingInFlight ==
    (IF refs.pendingFileTransferRef # Null THEN 1 ELSE 0) + Len(tasks.streams)

\* C4: at most one outgoing transfer is Announced or Streaming at any time
C4_OneOutgoingAtATime == OutgoingInFlight <= 1

\* an incoming transfer is announced and bytes of it are still missing
IncomingActive ==
    /\ refs.currentIncomingMetaRef # Null
    /\ refs.receivedSizeRef < refs.currentIncomingMetaRef[1].size

\* C5: while an incoming transfer is incomplete, no step replaces its
\* metadata, empties its chunk buffer or lowers its count of received bytes:
\* a step that leaves a transfer announced leaves the same one, with at least
\* the chunks and bytes it had
C5_SecondFileStartIgnored ==
    [][(IncomingActive /\ refs'.currentIncomingMetaRef # Null) =>
          /\ refs'.currentIncomingMetaRef = refs.currentIncomingMetaRef
          /\ Len(refs'.receivedChunksRef) >= Len(refs.receivedChunksRef)
          /\ refs'.receivedSizeRef >= refs.receivedSizeRef]_vars

RECURSIVE SumLens(_)
SumLens(chunks) ==
    IF chunks = <<>> THEN 0 ELSE Head(chunks) + SumLens(Tail(chunks))

\* C6: a transfer announced with any size, 0 included, and fed exactly size
\* bytes ends Completed: no transfer is still being assembled once all its
\* bytes are in, the count of received bytes never exceeds the size, and a
\* completed record carries an artifact of exactly size bytes while the busy
\* flag is cleared when nothing is being assembled
C6_ExactFeedCompletes ==
    /\ refs.currentIncomingMetaRef # Null =>
           refs.receivedSizeRef < refs.currentIncomingMetaRef[1].size
    /\ refs.currentIncomingMetaRef = Null => ~ui.isTransferring
    /\ \A i \in DOMAIN ui.messages :
           (ui.messages[i].type = "file" /\ ui.messages[i].status = "completed") =>
               /\ ui.messages[i].fileUrl # Null
               /\ SumLens(ui.messages[i].fileUrl[1]) = ui.messages[i].size

\* C7: a file record shows progress 100 only when all bytes of the transfer
\* have been received (incoming) or handed to the channel (outgoing)
C7_HundredOnlyWhenComplete ==
    \A i \in DOMAIN ui.messages :
        (ui.messages[i].type = "file" /\ ui.messages[i].progress = 100) =>
            /\ ~IncomingIncomplete(i)
            /\ ui.messages[i].sender = "me" =>
                   /\ refs.pendingFileTransferRef # Null =>
                          refs.pendingFileTransferRef[1].tid # ui.messages[i].id
                   /\ \A k \in DOMAIN tasks.streams :
                          tasks.streams[k].tid = ui.messages[i].id =>
                              tasks.streams[k].offset >= tasks.streams[k].size

\* the step sends a chunk of the transfer tid
ChunkSent(tid) ==
    \E n \in DOMAIN obs'.out :
        obs'.out[n].msg.type = "BIN" /\ obs'.out[n].msg.tid = tid

\* C9: an iteration of the chunk loop that reads bufferedAmount above 16 MiB
\* pauses: it sends no chunk and leaves the offset where it was; an iteration
\* that reads a value at or below the mark goes on to read and send the next
\* chunk; chunks are sent, and the offset advanced, only from an iteration
\* whose reading was at or below the mark
C9_Backpressure ==
    [][/\ \A j \in DOMAIN tasks'.streams :
             /\ tasks'.streams[j].pc = "wait" =>
                    tasks'.streams[j].gauge > HighWater
             /\ tasks'.streams[j].pc = "read" =>
                    tasks'.streams[j].gauge <= HighWater
       /\ \A k \in DOMAIN tasks.streams : \A j \in DOMAIN tasks'.streams :
             tasks'.streams[j].tid = tasks.streams[k].tid =>
                 /\ tasks'.streams[j].pc = "wait" =>
                        /\ tasks'.streams[j].offset = tasks.streams[k].offset
                        /\ ~ChunkSent(tasks.streams[k].tid)
                 /\ (ChunkSent(tasks.streams[k].tid)
                        \/ tasks'.streams[j].offset # tasks.streams[k].offset) =>
                        /\ tasks.streams[k].pc = "read"
                        /\ tasks.streams[k].gauge <= HighWater
                 /\ (tasks.streams[k].pc = "read" /\ tasks'.streams[j].pc = "yield"
                        /\ ConnOpen(State, refs.connRef)) =>
                        /\ ChunkSent(tasks.streams[k].tid)
                        /\ tasks'.streams[j].offset =
                               tasks.streams[k].offset + chunkSize]_vars

\* a transfer paused by backpressure after its first chunk went out
C9_PausedMidTransfer ==
    \E k \in DOMAIN tasks.streams :
        /\ tasks.streams[k].pc = "wait"
        /\ tasks.streams[k].offset > 0
        /\ tasks.streams[k].offset < tasks.streams[k].size

---------------------------------------------------------------------------
(* Exit (section 4.2) *)

\* C10: resetToHome, called in any reachable state, leaves no channel and no
\* peer, no heartbeat and no connection timeout, no outgoing transfer
\* announced or streaming and no incoming transfer being assembled; a second
\* call changes nothing
C10_ResetTearsDown ==
    LET r == resetToHome(Begin)
    IN  /\ r.refs.connRef = NoConn
        /\ r.refs.peerRef = Null
        /\ ~r.tasks.heartbeatRef
        /\ r.tasks.connectionTimeoutRef = Null
        /\ r.refs.pendingFileTransferRef = Null
        /\ r.tasks.streams = <<>>
        /\ r.refs.currentIncomingMetaRef = Null
        /\ r.refs.fileMetaRef = Null
        /\ r.refs.receivedChunksRef = <<>>
        /\ r.refs.receivedSizeRef = 0
        /\ resetToHome(r) = r

---------------------------------------------------------------------------
(* Guest connect (section 4.2) *)

PaddedHostId == <<" ", "H", "o", "s", "T", " ">>

\* the step creates a connection object
ConnCreated == net'.nextConn = net.nextConn + 1

\* C11: the id given to peer.connect by a click on the connect button is the
\* typed token without its surrounding blanks and in lower case; the token
\* " HosT " connects to the host's id "host"
C11_TargetNormalized ==
    [][(ClickConnect /\ ConnCreated) =>
          /\ net'.conns[net.nextConn].peer = toLowerCase(trim(ui.targetPeerId))
          /\ ui.targetPeerId = PaddedHostId =>
                 net'.conns[net.nextConn].peer = HostId]_vars

\* a connection to the host made from the token " HosT "
C11_PaddedTokenConnected ==
    /\ ui.targetPeerId = PaddedHostId
    /\ \E c \in Conns :
           net.conns[c].st = "pending" /\ net.conns[c].peer = HostId

\* the cases connectToTarget must reject, for the token in the input field
MustReject ==
    \/ refs.peerRef = Null
    \/ refs.peerRef[1].id = <<>>
    \/ toLowerCase(trim(ui.targetPeerId)) = <<>>
    \/ toLowerCase(trim(ui.targetPeerId)) = ui.peerId

\* C12: a click on the connect button with an empty token, with the local
\* id as token, or before the peer has an id sets an error message and
\* nothing else: no connection is created, and the held channel, the
\* connecting flag, the retry count and the timeout timer stay as they were
C12_RejectionChangesNothing ==
    [][(ClickConnect /\ MustReject) =>
          /\ ui'.errorMsg # ""
          /\ ui' = [ui EXCEPT !.errorMsg = ui'.errorMsg]
          /\ ~ConnCreated
          /\ net' = net
          /\ refs' = refs
          /\ tasks' = tasks]_vars

\* a click rejected as a connection to oneself
C12_SelfRejected == ui.errorMsg = "self" /\ ~ui.isConnecting

---------------------------------------------------------------------------
(* Progress of a three-chunk reception (section 5.3) *)

\* a file of exactly three full chunks
ThreeChunks == 3 * chunkSize

\* the progress shown by the record of transfer id
ShownProgress(messages, id) ==
    LET i == CHOOSE j \in DOMAIN messages :
                 messages[j].type = "file" /\ messages[j].id = id
    IN  messages[i].progress

\* the record of transfer id is Completed with an artifact of ThreeChunks bytes
CompletedWhole(messages, id) ==
    \E i \in DOMAIN messages :
        /\ messages[i].type = "file" /\ messages[i].id = id
        /\ messages[i].status = "completed"
        /\ messages[i].fileUrl # Null
        /\ SumLens(messages[i].fileUrl[1]) = ThreeChunks

---------------------------------------------------------------------------
(* Signaling link and data channel (section 4.2) *)

\* a Live session with transfers in both directions whose signaling link
\* is lost or reports an error
SignalNext ==
    \/ PeerDisconnected \/ PeerError
    \/ SelectFile \/ RecvAck \/ StreamRead \/ StreamResume
    \/ RecvFileStart \/ RecvChunk \/ AckTimer

SpecSignal == LiveInit /\ [][SignalNext]_vars

\* what the three peer-level handlers may not touch: the channel reference,
\* the channels, the timers and suspended transfers, the assembler's cells,
\* the session status, the records and the busy flag
SessionKept(s, t) ==
    /\ t.refs.connRef = s.refs.connRef
    /\ t.net.conns = s.net.conns
    /\ t.tasks = s.tasks
    /\ [t.refs EXCEPT !.peerRef = Null] = [s.refs EXCEPT !.peerRef = Null]
    /\ t.ui.connectionStatus = s.ui.connectionStatus
    /\ t.ui.messages = s.ui.messages
    /\ t.ui.isTransferring = s.ui.isTransferring
    /\ t.obs.out = <<>>

\* C14: the peer-level 'disconnected' and 'error' events change only the
\* signaling status, the error text and the connecting flag, and the 'close'
\* handler only the signaling status and the local id it belongs to; none of
\* them changes the channel reference, the session status, the heartbeat
\* timer, a pending or running transfer, or sends anything: a Live session
\* stays Live
C14_SignalingLossKeepsSession ==
    /\ [][(PeerDisconnected \/ PeerError) =>
             /\ SessionKept(State, [ui |-> ui', refs |-> refs', net |-> net',
                                    tasks |-> tasks', obs |-> obs'])
             /\ ui' = [ui EXCEPT !.serverStatus = "disconnected",
                                 !.errorMsg = ui'.errorMsg,
                                 !.isConnecting = ui'.isConnecting]
             /\ PeerDisconnected =>
                    ui'.errorMsg = ui.errorMsg
                    /\ ui'.isConnecting = ui.isConnecting]_vars
    /\ [](/\ SessionKept(Begin, OnPeerClose(Begin))
          /\ OnPeerClose(Begin).ui =
                 [ui EXCEPT !.serverStatus = "disconnected", !.peerId = <<>>])

\* the signaling link is gone while the session is Live, the heartbeat runs
\* and a transfer is in progress
C14_LiveWithoutSignaling ==
    /\ ui.serverStatus = "disconnected"
    /\ refs.peerRef[1].disconnected
    /\ ui.connectionStatus = "Connected"
    /\ ConnOpen(State, refs.connRef)
    /\ tasks.heartbeatRef
    /\ ui.isTransferring
    /\ tasks.streams # <<>>

---------------------------------------------------------------------------
(* PING and PONG (section 4.3) *)

\* a PING is delivered on channel c
PingArrives(c) ==
    /\ net.conns[c].st = "open"
    /\ Commit(OnConnData(Begin, c, [type |-> "PING"], 0, FALSE))

\* C15: a PING delivered on a channel, whatever the session status and
\* whether or not the channel is the current one, makes the handler send
\* exactly one message, a PONG on that same channel, and change nothing else
C15_PingAnsweredByPong ==
    [][\A c \in Conns :
          (RecvPing /\ PingArrives(c)) =>
              /\ obs'.out = <<[ch |-> c, msg |-> [type |-> "PONG"]]>>
              /\ ui' = ui
              /\ refs' = refs
              /\ tasks' = tasks
              /\ net' = net]_vars

\* a PONG went out on a channel that is not the current one while the
\* session is not Live
C15_PongWhileNotLive ==
    /\ ui.connectionStatus = "Disconnected"
    /\ \E c \in Conns :
          /\ c # refs.connRef
          /\ obs.out = <<[ch |-> c, msg |-> [type |-> "PONG"]]>>

\* C16: a PONG received while the session is already Live is only a
\* heartbeat signal: it does not run the transition to Live again, so it
\* leaves the status, the connecting flag, the error text and the view as
\* they are
C16_LiveTransitionOnce ==
    [][(RecvPong /\ ui.connectionStatus = "Connected") => ui' = ui]_vars

---------------------------------------------------------------------------
(* Replaced channels (sections 4.2 and 4.3) *)

\* an event of channel c is delivered: 'close', 'error' or a PONG
EventOf(c) ==
    \/ /\ net.conns[c].st = "open"
       /\ Commit(OnConnClose([Begin EXCEPT !.net.conns[c].st = "closed"], c))
    \/ /\ net.conns[c].st \in {"pending", "open"}
       /\ net.errors < MaxErrors
       /\ Commit(OnConnError([Begin EXCEPT !.net.errors = @ + 1], c))
    \/ /\ net.conns[c].st = "open"
       /\ net.conns[c].pingOut > 0
       /\ Commit(OnConnData([Begin EXCEPT
                                !.net.conns[c].pingOut = @ - 1,
                                !.net.conns[c].ponged = TRUE],
                            c, [type |-> "PONG"], 0, FALSE))

\* C17: a 'close', 'error' or 'data' event of a channel that is no longer
\* the current one changes neither the session status (to Disconnected or
\* to Live), nor the heartbeat timer, nor the busy flag
C17_ReplacedChannelIsInert ==
    [][\A c \in Conns :
          (/\ ChanClose \/ ChanError \/ RecvPong
           /\ refs.connRef # NoConn
           /\ c # refs.connRef
           /\ EventOf(c)) =>
              /\ ui'.connectionStatus = ui.connectionStatus
              /\ tasks'.heartbeatRef = tasks.heartbeatRef
              /\ ui'.isTransferring = ui.isTransferring]_vars

---------------------------------------------------------------------------
(* Connect timeout of a session that is Live (sections 4.2 and 4.3) *)

\* C18: when the 8 s timer of an attempt fires after the PONG of that
\* attempt has made the session Live, it neither closes the channel nor
\* starts a retry: the channel reference, the channels' states and the
\* status stay as they are and no new channel is requested
C18_TimeoutSparesLiveSession ==
    [][(/\ ConnectTimeout
        /\ ui.connectionStatus = "Connected"
        /\ ConnOpen(State, refs.connRef)
        /\ net.conns[refs.connRef].ponged) =>
            /\ refs'.connRef = refs.connRef
            /\ net'.conns = net.conns
            /\ net'.nextConn = net.nextConn
            /\ ui'.connectionStatus = "Connected"]_vars

---------------------------------------------------------------------------
(* The chunk loop and its channel (section 5.2) *)

\* C19: every chunk the loop of a transfer sends goes out on the channel on
\* which the transfer was announced: once that channel is closed or
\* replaced the loop sends nothing more, on no channel
C19_ChunksStayOnAnnouncedChannel ==
    [][StreamRead =>
          \A i \in DOMAIN obs'.out :
              obs'.out[i].msg.type = "BIN" =>
                  \E k \in DOMAIN tasks.streams :
                      /\ tasks.streams[k].tid = obs'.out[i].msg.tid
                      /\ tasks.streams[k].ch = obs'.out[i].ch]_vars

---------------------------------------------------------------------------
(* Heartbeat outside Live (section 4.4) *)

\* the step sends a PING
PingGoesOut == \E i \in DOMAIN obs'.out : obs'.out[i].msg.type = "PING"

\* C20: the heartbeat timer sends a PING only while the session is Live on
\* an open channel, and it does not run once the session is Disconnected
\* after a channel close, a channel error or an exit
C20_HeartbeatOnlyWhileLive ==
    [][(HeartbeatTick /\ PingGoesOut) =>
          /\ ui.connectionStatus = "Connected"
          /\ ConnOpen(State, refs.connRef)]_vars

---------------------------------------------------------------------------
(* Announce, acknowledge, stream (section 5.2) *)

\* the transfers that have a running chunk loop
Streaming(streams) == {streams[k].tid : k \in DOMAIN streams}

\* C21: a chunk loop is started only by an ACK_FILE_START received while a
\* transfer is pending, for that transfer, whose FILE_START had gone out,
\* and the ACK uses the pending file up, so one ACK starts at most one loop;
\* a chunk is sent only by a loop started in an earlier step; an
\* ACK_FILE_START received while nothing is pending starts no loop, sends
\* nothing and changes no state of the component
C21_AckBeforeChunks ==
    /\ [](\A k \in DOMAIN tasks.streams : tasks.streams[k].announced)
    /\ [][/\ \A tid \in Streaming(tasks'.streams) \ Streaming(tasks.streams) :
                /\ RecvAck
                /\ refs.pendingFileTransferRef # Null
                /\ refs.pendingFileTransferRef[1].tid = tid
                /\ refs.pendingFileTransferRef[1].announced
                /\ refs'.pendingFileTransferRef = Null
          /\ \A i \in DOMAIN obs'.out :
                obs'.out[i].msg.type = "BIN" =>
                    /\ StreamRead
                    /\ obs'.out[i].msg.tid \in Streaming(tasks.streams)
          /\ RecvAck => Len(tasks'.streams) <= Len(tasks.streams) + 1
          /\ (RecvAck /\ refs.pendingFileTransferRef = Null) =>
                /\ ui' = ui /\ refs' = refs /\ tasks' = tasks
                /\ obs'.out = <<>>
                /\ \E c \in Conns :
                      net' = [net EXCEPT !.conns[c].fsOut = @ - 1]]_vars

\* an acknowledged transfer has sent its first chunk and a second
\* ACK_FILE_START of the remote is still to come
C21_ChunkSentAfterAck ==
    /\ \E i \in DOMAIN obs.out :
          /\ obs.out[i].msg.type = "BIN"
          /\ obs.out[i].msg.tid \in Streaming(tasks.streams)
    /\ refs.pendingFileTransferRef = Null
    /\ \E c \in Conns : net.conns[c].st = "open" /\ net.conns[c].fsOut > 0

\* channel c closes or reports an error
ChanFails(c) ==
    \/ /\ net.conns[c].st = "open"
       /\ Commit(OnConnClose([Begin EXCEPT !.net.conns[c].st = "closed"], c))
    \/ /\ net.conns[c].st \in {"pending", "open"}
       /\ net.errors < MaxErrors
       /\ Commit(OnConnError([Begin EXCEPT !.net.errors = @ + 1], c))

\* the record of the outgoing transfer tid has status 'error'
MarkedFailed(messages, tid) ==
    \E i \in DOMAIN messages :
        /\ messages[i].type = "file" /\ messages[i].sender = "me"
        /\ messages[i].id = tid
        /\ messages[i].status = "error"

\* C22: when the channel on which a transfer was announced closes or
\* reports an error before the ACK_FILE_START has arrived, the pending file
\* is discarded and the record of the transfer is marked 'error', so that no
\* later ACK_FILE_START can start streaming it
C22_AnnouncedTransferAborted ==
    [][\A c \in Conns :
          (/\ ChanClose \/ ChanError
           /\ ChanFails(c)
           /\ refs.pendingFileTransferRef # Null
           /\ refs.pendingFileTransferRef[1].announced
           /\ refs.pendingFileTransferRef[1].ch = c) =>
              /\ refs'.pendingFileTransferRef = Null
              /\ MarkedFailed(ui'.messages, refs.pendingFileTransferRef[1].tid)]_vars

---------------------------------------------------------------------------
(* Completion of an outgoing transfer (section 5.2) *)

\* the record at position i, an outgoing file, becomes 'completed' in this step
BecomesCompleted(i) ==
    /\ i \in DOMAIN ui.messages
    /\ ui'.messages[i].id = ui.messages[i].id
    /\ ui'.messages[i].type = "file" /\ ui'.messages[i].sender = "me"
    /\ ui'.messages[i].status = "completed"
    /\ ui.messages[i].status # "completed"

\* C23: the record of an outgoing transfer is marked 'completed' only by
\* the chunk loop of that transfer, once it has handed slices of at most
\* 64 KiB, at increasing offsets, to the channel that add up to the file
\* size, and the loop ends in that step; a file of size 0 completes on its
\* ACK_FILE_START with no slice sent
C23_CompletedAfterLastSlice ==
    [][/\ \A i \in DOMAIN ui'.messages :
             BecomesCompleted(i) =>
                 \/ \E k \in DOMAIN tasks.streams :
                       /\ tasks.streams[k].tid = ui.messages[i].id
                       /\ tasks.streams[k].offset >= tasks.streams[k].size
                       /\ tasks.streams[k].sentBytes = tasks.streams[k].size
                       /\ ui.messages[i].id \notin Streaming(tasks'.streams)
                 \/ /\ RecvAck
                    /\ refs.pendingFileTransferRef # Null
                    /\ refs.pendingFileTransferRef[1].tid = ui.messages[i].id
                    /\ refs.pendingFileTransferRef[1].size = 0
                    /\ ui.messages[i].id \notin Streaming(tasks'.streams)
       /\ \A j \in DOMAIN obs'.out :
             obs'.out[j].msg.type = "BIN" =>
                 \E k \in DOMAIN tasks.streams :
                    /\ tasks.streams[k].tid = obs'.out[j].msg.tid
                    /\ obs'.out[j].msg.offset = tasks.streams[k].offset
                    /\ obs'.out[j].msg.len \in 1..chunkSize
                    /\ obs'.out[j].msg.offset + obs'.out[j].msg.len
                           <= tasks.streams[k].size]_vars

---------------------------------------------------------------------------
(* The byte counter of the assembler (section 5.3) *)

\* C24: whatever binary messages arrive, the count of received bytes never
\* exceeds the announced size while a transfer is being assembled, and as
\* long as the same transfer stays announced the count never decreases
C24_CounterBounded ==
    /\ [](refs.currentIncomingMetaRef # Null =>
             refs.receivedSizeRef <= refs.currentIncomingMetaRef[1].size)
    /\ [][(/\ refs.currentIncomingMetaRef # Null
           /\ refs'.currentIncomingMetaRef = refs.currentIncomingMetaRef) =>
              refs'.receivedSizeRef >= refs.receivedSizeRef]_vars

\* two short chunks are in and a full chunk would overshoot the size
C24_NearlyFull ==
    /\ refs.currentIncomingMetaRef # Null
    /\ refs.receivedChunksRef = <<34464, 34464>>
    /\ refs.receivedSizeRef + chunkSize > refs.currentIncomingMetaRef[1].size

---------------------------------------------------------------------------
(* Completion of an incoming transfer and stray chunks (section 5.3) *)

\* C25: the binary message that completes an incoming transfer clears the
\* metadata references, the chunk buffer, the count and the busy flag, and
\* attaches the artifact, made of the buffered chunks and this one, to the
\* record with the announced id and to no other; a binary message that
\* arrives while no metadata is held is dropped: nothing changes and
\* nothing is sent
C25_CompletionClearsAssembler ==
    [][RecvChunk =>
          /\ (refs.currentIncomingMetaRef = Null /\ refs.fileMetaRef = Null) =>
                /\ ui' = ui /\ refs' = refs /\ tasks' = tasks /\ net' = net
                /\ obs'.out = <<>>
          /\ (/\ refs.currentIncomingMetaRef # Null
              /\ refs'.currentIncomingMetaRef = Null) =>
                /\ refs'.fileMetaRef = Null
                /\ refs'.incomingFileIdRef = Null
                /\ refs'.receivedChunksRef = <<>>
                /\ refs'.receivedSizeRef = 0
                /\ ~ui'.isTransferring
                /\ DOMAIN ui'.messages = DOMAIN ui.messages
                /\ \A i \in DOMAIN ui.messages :
                      IF ui.messages[i].id = refs.currentIncomingMetaRef[1].id
                      THEN /\ ui'.messages[i].status = "completed"
                           /\ ui'.messages[i].progress = 100
                           /\ ui'.messages[i].fileUrl # Null
                           /\ \E len \in InLens :
                                 ui'.messages[i].fileUrl[1] =
                                     Append(refs.receivedChunksRef, len)
                      ELSE ui'.messages[i] = ui.messages[i]]_vars

\* an incoming transfer has just completed: its record carries the artifact
\* and the assembler is empty and idle
C25_AssemblerCleared ==
    /\ refs.currentIncomingMetaRef = Null /\ refs.fileMetaRef = Null
    /\ refs.incomingFileIdRef = Null
    /\ refs.receivedChunksRef = <<>> /\ refs.receivedSizeRef = 0
    /\ ~ui.isTransferring
    /\ \E i \in DOMAIN ui.messages :
          /\ ui.messages[i].type = "file" /\ ui.messages[i].sender = "peer"
          /\ ui.messages[i].status = "completed"
          /\ ui.messages[i].fileUrl = Some(<<65536, 34464>>)

---------------------------------------------------------------------------
(* The delayed ACK_FILE_START (section 5.3) *)

\* C26: the ACK_FILE_START that the 50 ms timer of a FILE_START sends goes
\* out, once, on a channel on which a FILE_START has arrived; when the
\* channel of the FILE_START is no longer open the timer sends nothing
C26_AckOnArrivalChannel ==
    [][AckTimer =>
          /\ Len(obs'.out) <= 1
          /\ \A i \in DOMAIN obs'.out :
                /\ obs'.out[i].msg.type = "ACK_FILE_START"
                /\ net.conns[obs'.out[i].ch].fsIn
          /\ (\A c \in Conns : net.conns[c].fsIn => net.conns[c].st # "open")
                => obs'.out = <<>>]_vars

---------------------------------------------------------------------------
(* One channel per session (section 4.2) *)

\* C27: the session has at most one channel: a channel that was replaced
\* is closed, so no two channels carrying the session's handlers are open
\* at the same time
C27_AtMostOneOpenChannel ==
    \A c, d \in Conns :
        (net.conns[c].st = "open" /\ net.conns[d].st = "open") => c = d

---------------------------------------------------------------------------
(* Callbacks that outlive the session (section 4.2) *)

\* C28: once the session has been left (the view is back at HOME), a
\* callback scheduled before the exit, the heartbeat tick, the connection
\* timeout, the delayed ACK or a resumed streamFile, sends nothing and
\* changes nothing the user sees: the chat log stays empty and the busy
\* flag false
C28_NoCallbackAfterExit ==
    [][(/\ ui.appState = "HOME"
        /\ \/ HeartbeatTick \/ ConnectTimeout \/ AckTimer
           \/ StreamResume \/ StreamRead) =>
            /\ obs'.out = <<>>
            /\ ui' = ui
            /\ ui'.messages = <<>>
            /\ ~ui'.isTransferring]_vars

---------------------------------------------------------------------------
(* The busy flag (section 5.1) *)

\* C29: while the session is Live on its open channel, the busy flag is
\* set whenever an outgoing transfer is Announced or Streaming or an
\* incoming transfer is incomplete: the end of a transfer in one direction
\* does not clear it under a transfer of the other direction
C29_BusyCoversTransfers ==
    (/\ ui.connectionStatus = "Connected"
     /\ ConnOpen(State, refs.connRef)
     /\ OutgoingInFlight > 0 \/ IncomingActive) => ui.isTransferring

---------------------------------------------------------------------------
(* End of a transfer seen from the receiver (sections 5.2 and 5.3) *)

(* The remote runs the same streamFile: it announces a file and sends its   *)
(* bytes in order, or its loop fails on a local error (the catch block),    *)
(* after which it sends nothing more; net.remoteFailed records that.  The   *)
(* channel stays open and delivers every message.                           *)
RemoteAnnounce ==
    /\ ~net.remoteFailed
    /\ Announce

RemoteFeed ==
    /\ ~net.remoteFailed
    /\ Feed

\* the remote's streamFile throws: catch and finally run, nothing is sent
RemoteFails ==
    /\ ~net.remoteFailed
    /\ refs.currentIncomingMetaRef # Null
    /\ refs.receivedSizeRef < refs.currentIncomingMetaRef[1].size
    /\ Commit([Begin EXCEPT !.net.remoteFailed = TRUE])

EndToEndNext == RemoteAnnounce \/ RemoteFeed \/ RemoteFails \/ AckTimer

SpecEndToEnd == LiveInit /\ [][EndToEndNext]_vars

\* the remote's side of the announced transfer has ended, Completed (all
\* its bytes sent and delivered) or Failed, and no callback is pending
SenderEnded ==
    /\ refs.currentIncomingMetaRef # Null
    /\ \/ net.remoteFailed
       \/ refs.receivedSizeRef >= refs.currentIncomingMetaRef[1].size
    /\ tasks.ackTimers = 0

\* C30: on a channel that stays open and has delivered everything, once
\* the sender's side of a transfer has ended and nothing is left to arrive
\* or to run, the receiver is no longer receiving and its busy flag is
\* cleared
C30_ReceiverLeavesReceiving ==
    (ConnOpen(State, refs.connRef) /\ SenderEnded) => ~ui.isTransferring

---------------------------------------------------------------------------
(* The status of a file record (section 3, ChatRecord) *)

\* the chunk loop of the outgoing transfer tid ends in this step: a running
\* loop returns, or the ACK_FILE_START of the pending transfer starts a loop
\* that returns at once
EndsInStep(tid) ==
    /\ tid \notin Streaming(tasks'.streams)
    /\ \/ tid \in Streaming(tasks.streams)
       \/ /\ RecvAck
          /\ refs.pendingFileTransferRef # Null
          /\ refs.pendingFileTransferRef[1].tid = tid
          /\ refs'.pendingFileTransferRef = Null

\* C31: a step in which the chunk loop of an outgoing transfer ends,
\* completed or failed, gives the record of that transfer the status
\* 'completed' or 'error' and leaves the status and the progress of the
\* record of every other outgoing transfer as they were
C31_EndTouchesOwnRecordOnly ==
    [][(StreamResume \/ StreamRead \/ RecvAck) =>
          \A tid \in 1..MaxFiles :
              EndsInStep(tid) =>
                  \A i \in DOMAIN ui.messages :
                      (ui.messages[i].type = "file" /\ ui.messages[i].sender = "me") =>
                          IF ui.messages[i].id = tid
                          THEN ui'.messages[i].status \in {"completed", "error"}
                          ELSE /\ ui'.messages[i].status = ui.messages[i].status
                               /\ ui'.messages[i].progress = ui.messages[i].progress]_vars

---------------------------------------------------------------------------
(* Handshake liveness (section 4.3) *)

\* the remote answers a PING sent on c and the PONG is delivered
RecvPongOn(c) ==
    /\ net.conns[c].st = "open"
    /\ net.conns[c].pingOut > 0
    /\ Commit(OnConnData([Begin EXCEPT
                            !.net.conns[c].pingOut = @ - 1,
                            !.net.conns[c].ponged = TRUE,
                            !.obs.silentTicks =
                                IF c = refs.connRef THEN 0 ELSE @],
                         c, [type |-> "PONG"], 0, FALSE))

(* The session with a remote and a transport that deliver: on every channel *)
(* a PING that went out is answered, and the PONG arrives, as long as the    *)
(* channel stays open.  Nothing else is required to happen: the timers, the  *)
(* user and the failures of the transport remain free.                       *)
SpecHandshake ==
    /\ Init
    /\ [][Next]_vars
    /\ \A c \in Conns : WF_vars(RecvPongOn(c))

\* C32: on a channel that has opened, on the connecting side as on the
\* accepting side, the session status becomes Connected unless the channel
\* stops being open first
C32_HandshakeCompletes ==
    \A c \in Conns :
        (net.conns[c].st = "open" /\ ~net.conns[c].ponged)
            ~> (ui.connectionStatus = "Connected" \/ net.conns[c].st # "open")

\* the accepting side is Live on the channel its guest opened
C32_HostLive ==
    /\ ui.role = "sender"
    /\ ui.connectionStatus = "Connected"
    /\ ConnOpen(State, refs.connRef)
    /\ net.conns[refs.connRef].ponged
    /\ net.conns[refs.connRef].peer = RemoteId

---------------------------------------------------------------------------
(* Events during the backpressure wait (section 5.2) *)

\* a binary message of len bytes is delivered on channel c
ChunkArrives(c, len) ==
    /\ net.conns[c].st = "open"
    /\ \E elapsed \in BOOLEAN :
          Commit(OnConnData(Begin, c, [type |-> "BIN", len |-> len], 0, elapsed))

(* A Live session in which files go both ways while the remote pings and   *)
(* the heartbeat runs; the channel may close                               *)
PausedNext ==
    \/ SelectFile \/ RecvAck \/ StreamResume \/ StreamRead
    \/ RecvFileStart \/ AckTimer \/ RecvChunk
    \/ RecvPing \/ HeartbeatSend \/ ChanClose

SpecPaused == LiveInit /\ [][PausedNext]_vars

\* some chunk loop is suspended in the 50 ms wait of the backpressure test
Paused(streams) == \E k \in DOMAIN streams : streams[k].pc = "wait"

\* C33: while a chunk loop is suspended in the backpressure wait, a PING
\* that arrives is answered with a PONG on its channel, a tick of the
\* heartbeat sends a PING on the open current channel, and a binary message
\* that arrives while incoming metadata is held is appended to the buffer
\* of the incoming transfer (or completes it with that chunk as the last
\* one); none of the three touches the suspended loop
C33_WaitStallsNothing ==
    [][Paused(tasks.streams) =>
          /\ \A c \in Conns :
                (RecvPing /\ PingArrives(c)) =>
                    obs'.out = <<[ch |-> c, msg |-> [type |-> "PONG"]]>>
          /\ (HeartbeatSend /\ ConnOpen(State, refs.connRef)) =>
                obs'.out = <<[ch |-> refs.connRef, msg |-> [type |-> "PING"]]>>
          /\ \A c \in Conns, len \in InLens :
                (RecvChunk /\ ChunkArrives(c, len)
                   /\ refs.currentIncomingMetaRef # Null) =>
                    LET chunks == Append(refs.receivedChunksRef, len)
                    IN  \/ /\ refs'.receivedChunksRef = chunks
                           /\ refs'.receivedSizeRef = refs.receivedSizeRef + len
                        \/ \E i \in DOMAIN ui'.messages :
                              /\ ui'.messages[i].id = refs.currentIncomingMetaRef[1].id
                              /\ ui'.messages[i].status = "completed"
                              /\ ui'.messages[i].fileUrl = Some(chunks)
          /\ (RecvPing \/ HeartbeatSend \/ RecvChunk) =>
                tasks'.streams = tasks.streams]_vars

\* a heartbeat PING went out on the open channel while a chunk loop is
\* suspended in the backpressure wait and an incoming transfer has bytes
C33_PingWhilePaused ==
    /\ Paused(tasks.streams)
    /\ ConnOpen(State, refs.connRef)
    /\ obs.out = <<[ch |-> refs.connRef, msg |-> [type |-> "PING"]]>>
    /\ refs.receivedSizeRef > 0

---------------------------------------------------------------------------
(* A failure of the transfer alone (section 6) *)

\* slice.arrayBuffer() rejects in the chunk loop k: the catch block reports
\* it in a system message
ReadFails(k) ==
    /\ tasks.streams[k].pc = "read"
    /\ Len(ui'.messages) = Len(ui.messages) + 1
    /\ ui'.messages[Len(ui'.messages)].type = "text"
    /\ \E elapsed \in BOOLEAN : Commit(StreamSend(Begin, k, FALSE, elapsed))

\* C34: when the read of a chunk fails in the chunk loop of a transfer
\* while the current channel is open, the record of the transfer is marked
\* 'error', the loop ends and the busy flag is cleared, nothing is sent, and
\* the session status, the current channel, every connection and the
\* heartbeat timer stay as they were
C34_ReadFailureFailsTransferAlone ==
    [][\A k \in DOMAIN tasks.streams :
          (ReadFails(k) /\ ConnOpen(State, refs.connRef)) =>
              /\ MarkedFailed(ui'.messages, tasks.streams[k].tid)
              /\ tasks.streams[k].tid \notin Streaming(tasks'.streams)
              /\ ~ui'.isTransferring
              /\ obs'.out = <<>>
              /\ ui'.connectionStatus = ui.connectionStatus
              /\ ui'.appState = ui.appState
              /\ refs' = refs
              /\ net' = net
              /\ tasks'.heartbeatRef = tasks.heartbeatRef]_vars

\* the only transfer so far has failed on a read error after its first
\* chunk, on the one channel the session ever had, and the session is still
\* Live on it
C34_FailedWhileLive ==
    /\ net.nextConn = 2 /\ net.errors = 0 /\ net.nextId = 2
    /\ refs.connRef = 1 /\ net.conns[1].st = "open"
    /\ ui.connectionStatus = "Connected"
    /\ tasks.heartbeatRef
    /\ tasks.streams = <<>>
    /\ ~ui.isTransferring
    /\ \E i \in DOMAIN ui.messages :
          /\ ui.messages[i].type = "file" /\ ui.messages[i].sender = "me"
          /\ ui.messages[i].status = "error"
          /\ ui.messages[i].progress > 0

---------------------------------------------------------------------------
(* Errors of the signaling layer (section 6) *)

\* the err.type values of the five classes of signaling errors
SignalErrorTypes ==
    {"peer-unavailable", "network", "server-error", "unavailable-id",
     "browser-incompatible"}

\* what the library does before it emits a fatal error: nothing, or it
\* gives the peer up, destroying one that never had an id and disconnecting
\* one that had
LibAbort(s, gaveUp) ==
    IF ~gaveUp THEN s
    ELSE IF s.refs.peerRef[1].open
         THEN OnPeerDisconnected(
                  [s EXCEPT !.refs.peerRef[1].disconnected = TRUE,
                            !.refs.peerRef[1].id = <<>>])
         ELSE LibDestroy(s)

\* the peer reports an error of the given type, while it waits for its id
\* or after it got one
SignalingErrorOf(type) ==
    /\ refs.peerRef # Null
    /\ ~refs.peerRef[1].destroyed /\ ~refs.peerRef[1].disconnected
    /\ net.errors < MaxErrors
    /\ type = "unavailable-id" => ~refs.peerRef[1].open
    /\ \E gaveUp \in BOOLEAN :
          /\ type = "peer-unavailable" => ~gaveUp
          /\ Commit(OnPeerError(
                 LibAbort([Begin EXCEPT !.net.errors = @ + 1], gaveUp), type))

SignalingError ==
    /\ refs.peerRef # Null
    /\ \E type \in SignalErrorTypes : SignalingErrorOf(type)

(* The start of a session: the user opens or joins a room and asks for a   *)
(* connection, by token or by scanner, while the signaling layer may fail   *)
SignalingNext ==
    \/ StartRoom \/ JoinRoom \/ InitPeer \/ PeerOpen
    \/ TypeTarget \/ ClickConnect \/ StartScan \/ ScanDecoded
    \/ ConnectTimeout \/ ResetToHome
    \/ SignalingError

SpecSignaling == Init /\ [][SignalingNext]_vars

\* the step starts the signaling layer again: startRoom / joinRoom is about
\* to call initializePeer, or a new peer waits for its id
RetryStarted ==
    \/ tasks'.initPending # Null
    \/ /\ refs'.peerRef # Null
       /\ refs'.peerRef # refs.peerRef
       /\ ~refs'.peerRef[1].open /\ ~refs'.peerRef[1].destroyed

\* C35: an error of the signaling layer of one of the five classes ends the
\* start of the session with the message of its class: the server status
\* is disconnected, the connecting flag is cleared, and the handler starts
\* nothing again, no new peer and no new connection; only after an id
\* conflict a new start of the signaling layer is under way
C35_SignalingErrorsTerminal ==
    [][\A type \in SignalErrorTypes :
          (SignalingError /\ SignalingErrorOf(type)) =>
              /\ ui'.errorMsg = ErrorMessage(type)
              /\ ErrorMessage(type) # ErrorMessage("unknown")
              /\ ui'.serverStatus = "disconnected"
              /\ ~ui'.isConnecting
              /\ net'.nextConn = net.nextConn
              /\ IF type = "unavailable-id"
                 THEN RetryStarted
                 ELSE /\ tasks'.initPending = Null
                      /\ refs'.peerRef # Null
                      /\ refs'.peerRef[1].open = refs.peerRef[1].open]_vars

---------------------------------------------------------------------------
(* Messages of unknown type (section 4.5) *)

\* an object with the given type field, no message of the protocol, is
\* delivered on channel c
UnknownArrives(c, type) ==
    /\ net.conns[c].st = "open"
    /\ type = "Buffer" => Len(refs.receivedChunksRef) < MaxJunk
    /\ \E elapsed \in BOOLEAN :
          Commit(OnConnData(Begin, c, [type |-> type], 0, elapsed))

(* A Live session with transfers in both directions to which the remote    *)
(* also sends objects that are no message of the protocol                   *)
RouterNext ==
    \/ SelectFile \/ RecvAck \/ StreamResume \/ StreamRead
    \/ RecvFileStart \/ AckTimer \/ RecvChunk
    \/ RecvUnknown

SpecRouter == LiveInit /\ [][RouterNext]_vars

\* C36: an object that arrives with a type field other than PING, PONG,
\* TEXT, FILE_START and ACK_FILE_START, or with none, makes the component
\* send nothing and change nothing: the session status, the chat log, the
\* outgoing and the incoming transfer stay as they were
C36_UnknownTypesIgnored ==
    [][\A c \in Conns, type \in UnknownTypes :
          (RecvUnknown /\ UnknownArrives(c, type)) =>
              /\ obs'.out = <<>>
              /\ ui' = ui
              /\ refs' = refs
              /\ tasks' = tasks
              /\ net' = net]_vars

---------------------------------------------------------------------------
(* Text messages (section 4.5) *)

\* a TEXT with the given payload is delivered on channel c
TextArrives(c, payload) ==
    /\ net.conns[c].st = "open"
    /\ net.texts < MaxTexts
    /\ Commit(OnConnData([Begin EXCEPT !.net.texts = @ + 1,
                                       !.net.remoteTexts = Append(@, payload)],
                         c, [type |-> "TEXT", payload |-> payload], 0, FALSE))

(* A Live session in which both peers write texts while the remote sends   *)
(* files and the channel may report an error                               *)
ChatNext ==
    \/ SendMessage \/ RecvText
    \/ RecvFileStart \/ RecvChunk
    \/ ChanError

SpecChat == LiveInit /\ [][ChatNext]_vars

\* the contents of the records of the log that show a text of the remote,
\* in the order of the log; the notices of addSystemMessage are not among them
PeerTexts(messages) ==
    LET shown == SelectSeq(messages, LAMBDA m :
                     /\ m.type = "text" /\ m.sender = "peer"
                     /\ ~(Len(m.content) > 0 /\ m.content[1] = "system"))
    IN  [i \in 1..Len(shown) |-> shown[i].content]

\* C37: a TEXT that arrives adds exactly one record at the end of the chat
\* log, a text record of sender 'peer' with the payload received, and
\* leaves every record the log had as it was and where it was; the texts of
\* the remote stand in the log in the order in which the remote sent them
C37_TextBecomesRecord ==
    /\ [](PeerTexts(ui.messages) = net.remoteTexts)
    /\ [][\A c \in Conns, payload \in RemoteTexts :
             (RecvText /\ TextArrives(c, payload)) =>
                 /\ Len(ui'.messages) = Len(ui.messages) + 1
                 /\ SubSeq(ui'.messages, 1, Len(ui.messages)) = ui.messages
                 /\ ui'.messages[Len(ui'.messages)].type = "text"
                 /\ ui'.messages[Len(ui'.messages)].sender = "peer"
                 /\ ui'.messages[Len(ui'.messages)].content = payload]_vars

\* two different texts of the remote stand in the log, in the order sent,
\* after a file record and around a text of the user
C37_TwoTextsInOrder ==
    /\ net.remoteTexts = << <<"y", "o">>, <<"o", "k">> >>
    /\ PeerTexts(ui.messages) = net.remoteTexts
    /\ Len(ui.messages) = 4
    /\ ui.messages[1].type = "file"
    /\ ui.messages[3].sender = "me" /\ ui.messages[3].type = "text"

====
